---- MODULE Spec2Model ----
(***************************************************************************)
(* Model of the Monte Carlo benchmark of src/main.py: work_chunk,          *)
(* run_pi_estimate and benchmark.  The main thread walks the grid of       *)
(* (total_samples, n_threads) pairs; inside run_pi_estimate it submits     *)
(* one work_chunk task per worker to a ThreadPoolExecutor, reads the       *)
(* futures' results in index order, leaves the with-block (which joins     *)
(* the pool), computes the estimate and returns to benchmark, which        *)
(* probes the memory and prints one line.  The worker tasks run            *)
(* concurrently with the main thread and with each other.  An exception    *)
(* that nothing catches ends the program (pc = "aborted").  The wall-     *)
(* clock readings (t0, elapsed) influence no step and are left out.        *)
(***************************************************************************)
EXTENDS Integers, Sequences, FiniteSets, TLC

\* ---------------------------------------------------------------- bounds
\* Grid of the benchmark: GridRows sample sizes by GridCols thread counts,
\* every sample size drawn from -MaxNegative .. MaxGridSamples and every
\* thread count from -1 .. MaxGridThreads.
GridRows == 2
GridCols == 2
MaxGridSamples == 2
MaxGridThreads == 2
\* A single call of run_pi_estimate (a 1 x 1 grid) with larger arguments.
MaxCellSamples == 8
MaxCellThreads == 4
\* Least sample size tried is -MaxNegative.
MaxNegative == 2

\* ------------------------------------------------------------- constants
\* seed = 1234 + i
BaseSeed == 1234

\* get_memory_mb(): the readings the probe can return (resident set size,
\* in MB).  No step of the program depends on the reading.
get_memory_mb == {100}

\* The pseudo-random source behind rng.random: numpy's generator is
\* represented by a small linear congruential generator, a deterministic
\* stream of numbers in 0 .. RngRange-1 (the coordinate RngRange stands for
\* 1.0) that depends on the seed alone and differs from seed to seed.
RngRange == 16

VARIABLES
    sample_sizes,   \* benchmark: the outer sequence of the grid
    thread_counts,  \* benchmark: the inner sequence of the grid
    si, ti,         \* positions of the two for loops (1-based)
    pc,             \* position of the main thread
    mem_before,     \* benchmark: reading before run_pi_estimate
    mem_after,      \* benchmark: reading after run_pi_estimate
    futures,        \* run_pi_estimate: the submitted tasks, in submit order
    k,              \* run_pi_estimate: number of futures the sum has read
    hits,           \* run_pi_estimate: the sum's accumulator
    exc,            \* exception in flight inside the with-block
    pi_est,         \* value run_pi_estimate returned, in millionths
    out,            \* the lines printed so far
    error           \* the uncaught exception that ended the program

vars == <<sample_sizes, thread_counts, si, ti, pc, mem_before, mem_after,
          futures, k, hits, exc, pi_est, out, error>>

\* ----------------------------------------------------------- work_chunk
RECURSIVE RngState(_, _)
\* State of the generator seeded with seed after j draws.
RngState(seed, j) ==
    IF j = 0 THEN seed % 64
    ELSE (13 * RngState(seed, j - 1) + 7) % 64

\* j-th number (1-based) of the stream of the generator seeded with seed.
RngDraw(seed, j) == RngState(seed, j) \div 4

\* x = rng.random(n) takes draws 1..n, y = rng.random(n) draws n+1..2n;
\* point j is inside when x*x + y*y <= 1.0.
Inside(n, seed, j) ==
    RngDraw(seed, j) * RngDraw(seed, j) + RngDraw(seed, n + j) * RngDraw(seed, n + j)
        <= RngRange * RngRange

\* work_chunk(n_samples, seed): the number of points inside, or the
\* ValueError numpy raises for a negative size.
work_chunk(n_samples, seed) ==
    IF n_samples < 0
    THEN [raised |-> TRUE, value |-> 0]
    ELSE [raised |-> FALSE,
          value |-> Cardinality({j \in 1..n_samples : Inside(n_samples, seed, j)})]

\* ------------------------------------------------------ run_pi_estimate
\* Arguments of the call in progress.
total_samples == sample_sizes[si]
num_threads == thread_counts[ti]

samples_per_thread == total_samples \div num_threads
remainder == total_samples % num_threads

\* Variant of ChunkSize: the whole remainder goes to the last worker.
ChunkSizeLastTakesRest(i) ==
    samples_per_thread + (IF i = num_threads - 1 THEN remainder ELSE 0)

\* Variant of ChunkSize: i <= remainder in place of i < remainder.
ChunkSizeOffByOne(i) == samples_per_thread + (IF i <= remainder THEN 1 ELSE 0)

\* n for worker i (0-based).
ChunkSize(i) == samples_per_thread + (IF i < remainder THEN 1 ELSE 0)

\* seed for worker i (0-based).
ChunkSeed(i) == BaseSeed + i

Finished(f) == f.state \in {"returned", "raised"}

\* 4.0 * hits / total_samples, in millionths, rounded to nearest.
Estimate(h, total) == (2 * 4000000 * h + total) \div (2 * total)

\* -------------------------------------------------------------- benchmark
LastCell == si = Len(sample_sizes) /\ ti = Len(thread_counts)

Row == [kind |-> "row", samples |-> total_samples, threads |-> num_threads,
        pi_est |-> pi_est, mem_before |-> mem_before, mem_after |-> mem_after,
        mem_delta |-> mem_after - mem_before]

Blank == [kind |-> "blank"]

TypeOK ==
    /\ si \in 1..Len(sample_sizes)
    /\ ti \in 1..Len(thread_counts)
    /\ pc \in {"loop", "call", "submit", "sum", "exit", "estimate",
               "memafter", "print", "done", "aborted"}
    /\ k \in 0..Len(futures)
    /\ hits \in Nat
    /\ exc \in {"none", "ValueError"}
    /\ error \in {"none", "ValueError", "ZeroDivisionError"}

\* ------------------------------------------------------------------ Init
InitRun ==
    /\ si = 1 /\ ti = 1
    /\ pc = "loop"
    /\ mem_before = 0 /\ mem_after = 0
    /\ futures = <<>>
    /\ k = 0 /\ hits = 0
    /\ exc = "none"
    /\ pi_est = 0
    /\ out = <<>>
    /\ error = "none"

\* benchmark over a configured grid.
Init ==
    /\ sample_sizes \in [1..GridRows -> (0 - MaxNegative)..MaxGridSamples]
    /\ thread_counts \in [1..GridCols -> -1..MaxGridThreads]
    /\ InitRun

\* One call of run_pi_estimate from benchmark: a grid of one pair.
InitCell ==
    /\ sample_sizes \in [1..1 -> (0 - MaxNegative)..MaxCellSamples]
    /\ thread_counts \in [1..1 -> -1..MaxCellThreads]
    /\ InitRun

\* --------------------------------------------------------------- actions
\* benchmark: mem_before = get_memory_mb()
MemBefore ==
    /\ pc = "loop"
    /\ \E m \in get_memory_mb : mem_before' = m
    /\ pc' = "call"
    /\ UNCHANGED <<sample_sizes, thread_counts, si, ti, mem_after, futures,
                   k, hits, exc, pi_est, out, error>>

\* run_pi_estimate up to the with statement: the division by num_threads
\* and the construction of the pool, either of which may raise.
Enter ==
    /\ pc = "call"
    /\ futures' = <<>>
    /\ k' = 0 /\ hits' = 0 /\ exc' = "none"
    /\ IF num_threads = 0
       THEN pc' = "aborted" /\ error' = "ZeroDivisionError"
       ELSE IF num_threads < 0
       THEN pc' = "aborted" /\ error' = "ValueError"
       ELSE pc' = "submit" /\ error' = error
    /\ UNCHANGED <<sample_sizes, thread_counts, si, ti, mem_before, mem_after,
                   pi_est, out>>

\* Variant of Submit: the loop runs over range(num_threads - 1).
SubmitStopsEarly ==
    /\ pc = "submit"
    /\ LET i == Len(futures) IN
         /\ futures' = Append(futures, [n |-> ChunkSize(i), seed |-> ChunkSeed(i),
                                        state |-> "pending", result |-> 0])
         /\ pc' = IF i + 1 >= num_threads - 1 THEN "sum" ELSE "submit"
    /\ UNCHANGED <<sample_sizes, thread_counts, si, ti, mem_before, mem_after,
                   k, hits, exc, pi_est, out, error>>

\* One turn of the for loop: futures.append(executor.submit(work_chunk, n, seed))
Submit ==
    /\ pc = "submit"
    /\ LET i == Len(futures) IN
         /\ futures' = Append(futures, [n |-> ChunkSize(i), seed |-> ChunkSeed(i),
                                        state |-> "pending", result |-> 0])
         /\ pc' = IF i + 1 = num_threads THEN "sum" ELSE "submit"
    /\ UNCHANGED <<sample_sizes, thread_counts, si, ti, mem_before, mem_after,
                   k, hits, exc, pi_est, out, error>>

\* A pool thread takes task w (1-based position in futures) and starts it.
Start(w) ==
    /\ w \in 1..Len(futures)
    /\ futures[w].state = "pending"
    /\ futures' = [futures EXCEPT ![w].state = "running"]
    /\ UNCHANGED <<sample_sizes, thread_counts, si, ti, pc, mem_before,
                   mem_after, k, hits, exc, pi_est, out, error>>

\* Variant of Finish: the workers share one generator, so a task's numbers
\* depend on how many tasks finished before it.
FinishSharedGenerator(w) ==
    /\ w \in 1..Len(futures)
    /\ futures[w].state = "running"
    /\ LET done == Cardinality({v \in 1..Len(futures) :
                                   futures[v].state \in {"returned", "raised"}})
           r == work_chunk(futures[w].n, BaseSeed + done)
       IN futures' = [futures EXCEPT
                       ![w].state = IF r.raised THEN "raised" ELSE "returned",
                       ![w].result = r.value]
    /\ UNCHANGED <<sample_sizes, thread_counts, si, ti, pc, mem_before,
                   mem_after, k, hits, exc, pi_est, out, error>>

\* Task w runs work_chunk to its end; the future holds the value or the
\* exception.
Finish(w) ==
    /\ w \in 1..Len(futures)
    /\ futures[w].state = "running"
    /\ LET r == work_chunk(futures[w].n, futures[w].seed) IN
         futures' = [futures EXCEPT
                       ![w].state = IF r.raised THEN "raised" ELSE "returned",
                       ![w].result = r.value]
    /\ UNCHANGED <<sample_sizes, thread_counts, si, ti, pc, mem_before,
                   mem_after, k, hits, exc, pi_est, out, error>>

\* Variant of Result: the sum reads the future's value without waiting for
\* the task (an unfinished task has counted nothing yet).
ResultNoWait ==
    /\ pc = "sum"
    /\ k < Len(futures)
    /\ IF futures[k + 1].state = "raised"
       THEN /\ exc' = "ValueError"
            /\ pc' = "exit"
            /\ UNCHANGED <<k, hits>>
       ELSE /\ hits' = hits + futures[k + 1].result
            /\ k' = k + 1
            /\ pc' = IF k + 1 = Len(futures) THEN "exit" ELSE "sum"
            /\ exc' = exc
    /\ UNCHANGED <<sample_sizes, thread_counts, si, ti, mem_before, mem_after,
                   futures, pi_est, out, error>>

\* One turn of sum(f.result() for f in futures): result() blocks until the
\* future is finished, then returns its value or raises its exception.
Result ==
    /\ pc = "sum"
    /\ k < Len(futures)
    /\ Finished(futures[k + 1])
    /\ IF futures[k + 1].state = "raised"
       THEN /\ exc' = "ValueError"
            /\ pc' = "exit"
            /\ UNCHANGED <<k, hits>>
       ELSE /\ hits' = hits + futures[k + 1].result
            /\ k' = k + 1
            /\ pc' = IF k + 1 = Len(futures) THEN "exit" ELSE "sum"
            /\ exc' = exc
    /\ UNCHANGED <<sample_sizes, thread_counts, si, ti, mem_before, mem_after,
                   futures, pi_est, out, error>>

\* Variant of Exit: the pool is shut down with wait=False.
ExitNoWait ==
    /\ pc = "exit"
    /\ IF exc # "none"
       THEN pc' = "aborted" /\ error' = exc
       ELSE pc' = "estimate" /\ error' = error
    /\ UNCHANGED <<sample_sizes, thread_counts, si, ti, mem_before, mem_after,
                   futures, k, hits, exc, pi_est, out>>

\* End of the with-block: executor.shutdown(wait=True) returns once every
\* submitted task has run; an exception in flight then leaves
\* run_pi_estimate and benchmark.
Exit ==
    /\ pc = "exit"
    /\ \A w \in 1..Len(futures) : Finished(futures[w])
    /\ IF exc # "none"
       THEN pc' = "aborted" /\ error' = exc
       ELSE pc' = "estimate" /\ error' = error
    /\ UNCHANGED <<sample_sizes, thread_counts, si, ti, mem_before, mem_after,
                   futures, k, hits, exc, pi_est, out>>

\* pi_estimate = 4.0 * hits / total_samples; return
EstimateStep ==
    /\ pc = "estimate"
    /\ IF total_samples = 0
       THEN pc' = "aborted" /\ error' = "ZeroDivisionError" /\ pi_est' = pi_est
       ELSE pc' = "memafter" /\ error' = error
            /\ pi_est' = Estimate(hits, total_samples)
    /\ UNCHANGED <<sample_sizes, thread_counts, si, ti, mem_before, mem_after,
                   futures, k, hits, exc, out>>

\* benchmark: mem_after = get_memory_mb()
MemAfter ==
    /\ pc = "memafter"
    /\ \E m \in get_memory_mb : mem_after' = m
    /\ pc' = "print"
    /\ UNCHANGED <<sample_sizes, thread_counts, si, ti, mem_before, futures,
                   k, hits, exc, pi_est, out, error>>

\* Variant of PrintRow: the two loops are nested the other way round.
PrintRowColumnMajor ==
    /\ pc = "print"
    /\ IF si < Len(sample_sizes)
       THEN /\ out' = Append(out, Row)
            /\ si' = si + 1 /\ ti' = ti
            /\ pc' = "loop"
       ELSE /\ out' = Append(Append(out, Row), Blank)
            /\ IF ti < Len(thread_counts)
               THEN ti' = ti + 1 /\ si' = 1 /\ pc' = "loop"
               ELSE si' = si /\ ti' = ti /\ pc' = "done"
    /\ UNCHANGED <<sample_sizes, thread_counts, mem_before, mem_after, futures,
                   k, hits, exc, pi_est, error>>

\* benchmark: print the line of the pair, then go on to the next pair of
\* the inner loop, or print the blank line and go on with the outer loop.
PrintRow ==
    /\ pc = "print"
    /\ IF ti < Len(thread_counts)
       THEN /\ out' = Append(out, Row)
            /\ ti' = ti + 1 /\ si' = si
            /\ pc' = "loop"
       ELSE /\ out' = Append(Append(out, Row), Blank)
            /\ IF si < Len(sample_sizes)
               THEN si' = si + 1 /\ ti' = 1 /\ pc' = "loop"
               ELSE si' = si /\ ti' = ti /\ pc' = "done"
    /\ UNCHANGED <<sample_sizes, thread_counts, mem_before, mem_after, futures,
                   k, hits, exc, pi_est, error>>

Next ==
    \/ MemBefore
    \/ Enter
    \/ Submit
    \/ \E w \in 1..Len(futures) : Start(w)
    \/ \E w \in 1..Len(futures) : Finish(w)
    \/ Result
    \/ Exit
    \/ EstimateStep
    \/ MemAfter
    \/ PrintRow

Spec == Init /\ [][Next]_vars

SpecCell == InitCell /\ [][Next]_vars

\* ------------------------------------------------------------ properties
\* The configuration in progress is one the specification calls valid.
Valid == total_samples >= 0 /\ num_threads >= 1

\* The main thread is inside run_pi_estimate, past the creation of the pool.
InCall == pc \in {"submit", "sum", "exit", "estimate", "memafter", "print"}

\* The for loop of run_pi_estimate has submitted its last task.
AllSubmitted == pc \in {"sum", "exit", "estimate", "memafter", "print"}

\* run_pi_estimate has left the with-block without an exception.
Joined == pc \in {"estimate", "memafter", "print"}

RECURSIVE SumSizes(_)
SumSizes(fs) == IF fs = <<>> THEN 0 ELSE Head(fs).n + SumSizes(Tail(fs))

RECURSIVE SumResults(_)
SumResults(fs) == IF fs = <<>> THEN 0 ELSE Head(fs).result + SumResults(Tail(fs))

\* C1: for total_samples >= 0 and worker_count >= 1 the sample counts
\* n_0 .. n_{worker_count-1} submitted to work_chunk sum to total_samples
\* exactly and any two of them differ by at most 1.
C1_PartitionSumAndSpread ==
    (Valid /\ AllSubmitted) =>
        /\ Len(futures) = num_threads
        /\ SumSizes(futures) = total_samples
        /\ \A a, b \in 1..Len(futures) : futures[a].n - futures[b].n <= 1

\* A run whose total does not divide evenly has submitted all its tasks.
C1_Witness ==
    /\ AllSubmitted
    /\ total_samples = 8 /\ num_threads = 3
    /\ Len(futures) = 3

\* C2: with base = total_samples div worker_count and remainder =
\* total_samples mod worker_count, worker i (0-based) is given base + 1
\* samples exactly when i < remainder and base otherwise; total_samples = 8
\* with worker_count = 3 gives 3, 3, 2 in worker order.
C2_FirstRemainderWorkersGetOneMore ==
    /\ InCall =>
         \A w \in 1..Len(futures) :
            futures[w].n = IF w - 1 < total_samples % num_threads
                           THEN (total_samples \div num_threads) + 1
                           ELSE total_samples \div num_threads
    /\ (AllSubmitted /\ total_samples = 8 /\ num_threads = 3) =>
         <<futures[1].n, futures[2].n, futures[3].n>> = <<3, 3, 2>>

\* The 8-samples, 3-workers run has handed out its three batches.
C2_Witness ==
    /\ pc = "sum"
    /\ total_samples = 8 /\ num_threads = 3
    /\ Len(futures) = 3
    /\ futures[3].n = 2

\* Hit count work_chunk returns for the batch of future f.
HitsOf(f) == work_chunk(f.n, f.seed).value

\* C3 as stated: within one configuration the summing of the hit counts,
\* the computation of the estimate and the mem_after probe all occur only
\* after every worker task of the configuration has returned.
C3_AggregationOnlyAfterAllReturned ==
    (pc = "sum" /\ k > 0) \/ Joined =>
        /\ Len(futures) = num_threads
        /\ \A w \in 1..Len(futures) : Finished(futures[w])

\* C3 as amended: the sum is complete, the estimate is computed and
\* mem_after is probed only after every worker task of the configuration
\* has returned, and each hit count the sum has read is the final count of
\* a task that had returned when it was read; the sum may read the counts
\* of the first tasks while later tasks still run.
C3_SumReadsOnlyReturnedTasks ==
    /\ Joined =>
         /\ Len(futures) = num_threads
         /\ \A w \in 1..Len(futures) : futures[w].state = "returned"
    /\ InCall =>
         /\ \A w \in 1..k : futures[w].state = "returned"
         /\ hits = SumResults(SubSeq(futures, 1, k))
         /\ \A w \in 1..k : futures[w].result = HitsOf(futures[w])

\* The sum has read the first task's count while the second task runs.
C3_Witness ==
    /\ pc = "sum"
    /\ k = 1
    /\ Len(futures) = 2
    /\ futures[2].state = "running"

\* C4: for a valid configuration run_pi_estimate launches exactly
\* worker_count executions of work_chunk, one per batch of the partition,
\* and the total hit count used for the estimate is the sum of the hit
\* counts of all of them, each counted once, whatever order they finish in.
C4_EveryBatchCountedOnce ==
    /\ (Valid /\ InCall) => Len(futures) <= num_threads
    /\ (Valid /\ Joined) =>
         /\ Len(futures) = num_threads
         /\ \A w \in 1..Len(futures) :
               /\ futures[w].n = ChunkSize(w - 1)
               /\ futures[w].state = "returned"
               /\ futures[w].result = HitsOf(futures[w])
         /\ k = num_threads
         /\ hits = SumResults(futures)
    /\ (Valid /\ pc \in {"memafter", "print"}) =>
         pi_est = Estimate(SumResults(futures), total_samples)

\* Three workers with hits among them have been summed for the estimate.
C4_Witness ==
    /\ pc = "memafter"
    /\ num_threads = 3
    /\ total_samples = 8
    /\ hits > 0

RECURSIVE ExpectedHits(_, _, _)
\* Sum over workers 0 .. i-1 of the count a sampler seeded BaseSeed + worker
\* returns for that worker's share of total: a function of the
\* configuration alone.
ExpectedHits(total, workers, i) ==
    IF i = 0 THEN 0
    ELSE LET w == i - 1
             n == (total \div workers) + (IF w < total % workers THEN 1 ELSE 0)
         IN work_chunk(n, BaseSeed + w).value + ExpectedHits(total, workers, w)

\* C5: with the sampler a deterministic function of (sample_count, seed)
\* and worker i seeded BaseSeed + i, every run of a configuration produces
\* the same total hit count and the same estimate, however its workers are
\* scheduled: both are functions of the configuration, and two lines
\* printed for the same configuration carry the same estimate.
C5_SameConfigurationSameEstimate ==
    /\ Joined => hits = ExpectedHits(total_samples, num_threads, num_threads)
    /\ pc \in {"memafter", "print"} =>
         /\ pi_est = Estimate(ExpectedHits(total_samples, num_threads, num_threads),
                              total_samples)
         /\ \A a \in 1..Len(out) :
               (/\ out[a].kind = "row"
                /\ out[a].samples = total_samples
                /\ out[a].threads = num_threads) => out[a].pi_est = pi_est
    /\ \A a, b \in 1..Len(out) :
          (/\ out[a].kind = "row" /\ out[b].kind = "row"
           /\ out[a].samples = out[b].samples
           /\ out[a].threads = out[b].threads) => out[a].pi_est = out[b].pi_est

\* A configuration with two workers of unequal shares has run twice.
C5_Witness ==
    /\ Len(out) >= 2
    /\ out[1].kind = "row" /\ out[2].kind = "row"
    /\ out[1].samples = 1 /\ out[1].threads = 2
    /\ out[2].samples = 1 /\ out[2].threads = 2

\* C6: for total_samples = 0 and worker_count >= 1 every worker receives 0
\* samples and returns 0, and the estimate computation raises no
\* division-by-zero error: the run completes.
C6_ZeroSamplesRunCompletes ==
    (total_samples = 0 /\ num_threads >= 1) =>
        /\ \A w \in 1..Len(futures) : futures[w].n = 0 /\ futures[w].result = 0
        /\ pc # "aborted"
        /\ error = "none"

\* C7: when one configuration of the grid fails, the benchmark loop does
\* not stop: the program never ends on an exception while later pairs of
\* the grid are still to be executed.
C7_FailureDoesNotStopTheGrid == pc = "aborted" => LastCell

\* C8: a configuration with total_samples < 0 or worker_count < 1 is
\* rejected before any task is submitted to the pool: work_chunk is never
\* dispatched for it and no line is printed for it.
C8_InvalidConfigurationNeverDispatched ==
    (total_samples < 0 \/ num_threads < 1) =>
        /\ futures = <<>>
        /\ out = <<>>

\* C9: configurations never overlap: whenever the main thread is outside
\* the with-block of run_pi_estimate (about to take mem_before, about to
\* call, computing the estimate, probing, printing, finished, or ended by
\* an exception a worker raised) no submitted task is pending or running.
C9_PoolJoinedOutsideTheCall ==
    pc \in {"loop", "call", "estimate", "memafter", "print", "done", "aborted"} =>
        \A w \in 1..Len(futures) : Finished(futures[w])

\* mem_before of a later configuration is taken after a two-worker one.
C9_Witness ==
    /\ pc = "call"
    /\ out # <<>>
    /\ Len(futures) = 2
    /\ \A w \in 1..2 : futures[w].state = "returned"

\* The pairs of the grid in the order of the nested loops.
GridOrder ==
    [p \in 1..(Len(sample_sizes) * Len(thread_counts)) |->
        <<sample_sizes[((p - 1) \div Len(thread_counts)) + 1],
          thread_counts[((p - 1) % Len(thread_counts)) + 1]>>]

RECURSIVE RowPairs(_)
\* The (samples, threads) pairs of the printed lines, in print order.
RowPairs(lines) ==
    IF lines = <<>> THEN <<>>
    ELSE IF Head(lines).kind = "row"
         THEN <<<<Head(lines).samples, Head(lines).threads>>>> \o RowPairs(Tail(lines))
         ELSE RowPairs(Tail(lines))

\* Number of pairs the loops have left behind.
PairsPassed ==
    IF pc = "done" THEN Len(sample_sizes) * Len(thread_counts)
    ELSE (si - 1) * Len(thread_counts) + (ti - 1)

\* C10: benchmark visits the grid in a fixed order, outer loop over the
\* sample sizes and inner loop over the thread counts, and prints exactly
\* one line per pair: at every moment the printed pairs are the pairs of
\* the grid before the current one, in grid order, so a pair's line is
\* printed before any task of the next pair is submitted; a line is
\* printed only once all tasks of its pair have completed; and a run that
\* reaches the end has printed every pair.
C10_OneLinePerPairInGridOrder ==
    /\ RowPairs(out) = SubSeq(GridOrder, 1, PairsPassed)
    /\ pc = "print" =>
         /\ Len(futures) = num_threads
         /\ \A w \in 1..Len(futures) : futures[w].state = "returned"
    /\ pc = "done" => Len(RowPairs(out)) = Len(sample_sizes) * Len(thread_counts)

\* A grid of four different pairs has been printed to its end.
C10_Witness ==
    /\ pc = "done"
    /\ sample_sizes[1] # sample_sizes[2]
    /\ thread_counts[1] # thread_counts[2]
    /\ Len(RowPairs(out)) = 4
====
